---- MODULE Spec2Model ----
(***************************************************************************)
(* Reconciliation engine of the Mahaaya date slicer (visual.ts).           *)
(*                                                                         *)
(* A Date is the pair <<day, ms>>: a calendar-day index and the            *)
(* milliseconds elapsed in that day (local time).  Day 0 is 2024-01-01,    *)
(* so day 59 is 2024-02-29 and day 60 is 2024-03-01.  A null Date is the   *)
(* empty tuple.  A range is the pair <<from, to>>, a null range the empty  *)
(* tuple.  Preset identifiers are strings, the null preset is "null".      *)
(***************************************************************************)
EXTENDS Integers, Sequences, FiniteSets, TLC

\* ------------------------------------------------------------------ bounds
MaxClockSteps == 1
MaxDataDay    == 1
MaxTimers     == 2
MaxTicks      == 2
MaxUserOps    == 1

\* --------------------------------------------------------- program numbers
DayMs     == 86400000
Tolerance == 1000

Null      == <<>>
NoPreset  == "null"

\* 2024-02-29, the last day of a month: the clock starts here and advances
FirstClockDay == 31 + 28
ClockDays     == FirstClockDay .. (FirstClockDay + MaxClockSteps)

TimeBasedPresets == {"today", "yesterday", "last3days", "last7Days",
                     "last30Days", "thisMonth", "lastMonth"}
DataBoundPresets == {"minDate", "maxDate"}
AllPresets       == {"none"} \cup TimeBasedPresets \cup DataBoundPresets

\* ------------------------------------------------------------ Date algebra
Day(d)  == d[1]
Ms(d)   == d[2]
MkDate(day, ms) == <<day, ms>>

\* Date.prototype.getTime() comparisons
Before(a, b) == \/ Day(a) < Day(b)
                \/ Day(a) = Day(b) /\ Ms(a) < Ms(b)
MaxDate(a, b) == IF Before(a, b) THEN b ELSE a
MinDate(a, b) == IF Before(a, b) THEN a ELSE b

\* Math.abs(a.getTime() - b.getTime()), saturated at two days
AbsDiffMs(a, b) ==
    LET lo == MinDate(a, b)
        hi == MaxDate(a, b)
    IN  IF Day(hi) = Day(lo) THEN Ms(hi) - Ms(lo)
        ELSE IF Day(hi) = Day(lo) + 1 THEN (DayMs - Ms(lo)) + Ms(hi)
        ELSE 2 * DayMs

\* d.setHours(0, 0, 0, 0) and d.setHours(23, 59, 59, 999)
StartOfDay(d) == MkDate(Day(d), 0)
EndOfDay(d)   == MkDate(Day(d), DayMs - 1)

From(r) == r[1]
To(r)   == r[2]
MkRange(f, t) == <<f, t>>

\* first day of the month containing day d (calendar of 2024)
MonthStart(d) == IF d < 0 THEN 0 - 31
                 ELSE IF d < 31 THEN 0
                 ELSE IF d < 60 THEN 31
                 ELSE IF d < 91 THEN 60
                 ELSE 91

IsTimeBased(p) == p \in TimeBasedPresets

\* ---------------------------------------------------------- preset resolver
\* calculatePresetRange: the window of the preset before normalisation,
\* as <<first day, last day>> taken from the clock (or the stored bounds)
PresetWindow(dataMinDate, dataMaxDate, preset, now) ==
    CASE preset = "today"      -> <<now, now>>
      [] preset = "yesterday"  -> <<now - 1, now - 1>>
      [] preset = "last3days"  -> <<now - 2, now>>
      [] preset = "thisMonth"  -> <<MonthStart(now), now>>
      [] preset = "lastMonth"  -> <<MonthStart(MonthStart(now) - 1), MonthStart(now) - 1>>
      [] preset = "last7Days"  -> <<now - 7, now>>
      [] preset = "last30Days" -> <<now - 30, now>>
      [] preset = "minDate"    -> IF dataMinDate # Null
                                  THEN <<Day(dataMinDate), Day(dataMinDate)>>
                                  ELSE <<now, now>>
      [] preset = "maxDate"    -> IF dataMaxDate # Null
                                  THEN <<Day(dataMaxDate), Day(dataMaxDate)>>
                                  ELSE <<now, now>>

\* the clamp of calculatePresetRange against the stored data bounds
ClampPreset(dataMinDate, dataMaxDate, presetMin, presetMax) ==
    IF dataMinDate # Null /\ dataMaxDate # Null
    THEN LET m1 == IF Before(presetMin, dataMinDate)
                   THEN StartOfDay(dataMinDate) ELSE presetMin
             x1 == IF Before(dataMaxDate, presetMax)
                   THEN EndOfDay(dataMaxDate) ELSE presetMax
             m2 == IF Before(x1, m1) THEN StartOfDay(x1) ELSE m1
         IN  MkRange(m2, x1)
    ELSE MkRange(presetMin, presetMax)

CalculatePresetRange(dataMinDate, dataMaxDate, preset, now) ==
    IF preset \notin (AllPresets \ {"none"})
    THEN Null
    ELSE LET win == PresetWindow(dataMinDate, dataMaxDate, preset, now)
         IN  ClampPreset(dataMinDate, dataMaxDate,
                         MkDate(win[1], 0), MkDate(win[2], DayMs - 1))

\* ------------------------------------------------------------- filter codec
BoundColumn == [table |-> "Sales", column |-> "Date"]
OtherColumn == [table |-> "Sales", column |-> "ShipDate"]

\* The local time zone of the browser is UTC+05:30: getTimezoneOffset() is
\* -330 minutes.  A Date <<day, ms>> holds local time; its UTC fields are
\* the local ones moved back by the offset.
TzOffsetMs == 19800000

ToUTC(d) ==
    IF Ms(d) - TzOffsetMs < 0
    THEN MkDate(Day(d) - 1, Ms(d) - TzOffsetMs + DayMs)
    ELSE MkDate(Day(d), Ms(d) - TzOffsetMs)

FromUTC(u) ==
    IF Ms(u) + TzOffsetMs >= DayMs
    THEN MkDate(Day(u) + 1, Ms(u) + TzOffsetMs - DayMs)
    ELSE MkDate(Day(u), Ms(u) + TzOffsetMs)

\* A condition value on the wire is a record: fmt "iso" is the text
\* YYYY-MM-DDTHH:mm:ss.sssZ (UTC fields), fmt "ymd" the text YYYY-MM-DD,
\* fmt "date" a Date object (local fields), fmt "text" any other text
\* d.toISOString()
ToISOString(d) ==
    LET u == ToUTC(d) IN [fmt |-> "iso", day |-> Day(u), ms |-> Ms(u)]

\* parseToDate reading the fields of an ISO text as local time
ParseToDateLocal(value) ==
    CASE value.fmt = "date" -> MkDate(value.day, value.ms)
      [] value.fmt = "ymd"  -> MkDate(value.day, 0)
      [] value.fmt = "iso"  -> MkDate(value.day, value.ms)
      [] OTHER              -> Null

\* parseToDate(value)
ParseToDate(value) ==
    CASE value.fmt = "date" -> MkDate(value.day, value.ms)
      [] value.fmt = "ymd"  -> MkDate(value.day, 0)
      [] value.fmt = "iso"  -> FromUTC(MkDate(value.day, value.ms))
      [] OTHER              -> Null

\* the advanced filter built by applyDateFilter
Encode(minDate, maxDate) ==
    [target     |-> BoundColumn,
     conditions |-> << [operator |-> "GreaterThanOrEqual", value |-> ToISOString(minDate)],
                       [operator |-> "LessThanOrEqual",    value |-> ToISOString(maxDate)] >>]

\* String(operator).toLowerCase().includes(word)
OperatorIncludes(op, word) ==
    CASE word = "greater" -> op \in {"GreaterThanOrEqual", "GreaterThan"}
      [] word = "less"    -> op \in {"LessThanOrEqual", "LessThan"}

RECURSIVE ScanConditions(_, _, _, _)
ScanConditions(conds, i, minDate, maxDate) ==
    IF i > Len(conds) THEN <<minDate, maxDate>>
    ELSE LET c == conds[i]
             parsedDate == ParseToDate(c.value)
         IN  IF parsedDate = Null
             THEN ScanConditions(conds, i + 1, minDate, maxDate)
             ELSE IF OperatorIncludes(c.operator, "greater")
             THEN ScanConditions(conds, i + 1, parsedDate, maxDate)
             ELSE IF OperatorIncludes(c.operator, "less")
             THEN ScanConditions(conds, i + 1, minDate, parsedDate)
             ELSE ScanConditions(conds, i + 1, minDate, maxDate)

\* the filter scan without the comparison of the target with the bound column
RECURSIVE ScanFiltersAnyColumn(_, _)
ScanFiltersAnyColumn(filters, i) ==
    IF i > Len(filters) THEN Null
    ELSE LET f == filters[i]
         IN  IF Len(f.conditions) = 0
             THEN ScanFiltersAnyColumn(filters, i + 1)
             ELSE LET r == ScanConditions(f.conditions, 1, Null, Null)
                  IN  IF r[1] # Null /\ r[2] # Null
                      THEN r
                      ELSE ScanFiltersAnyColumn(filters, i + 1)

RECURSIVE ScanFilters(_, _)
ScanFilters(filters, i) ==
    IF i > Len(filters) THEN Null
    ELSE LET f == filters[i]
         IN  IF f.target # BoundColumn \/ Len(f.conditions) = 0
             THEN ScanFilters(filters, i + 1)
             ELSE LET r == ScanConditions(f.conditions, 1, Null, Null)
                  IN  IF r[1] # Null /\ r[2] # Null
                      THEN r
                      ELSE ScanFilters(filters, i + 1)

\* getDateRangeFromFilters(options.jsonFilters, category.source)
GetDateRangeFromFilters(filters) == ScanFilters(filters, 1)

\* ------------------------------------------------------------ instance state
TimerKinds == {"U", "UP", "RU", "C"}

\* the fields of Visual after construction
NewVisual ==
    [dataMinDate           |-> Null,
     dataMaxDate           |-> Null,
     lastPresetSetting     |-> NoPreset,
     activePreset          |-> NoPreset,
     selectedMinDate       |-> Null,
     selectedMaxDate       |-> Null,
     currentDataSource     |-> FALSE,
     shouldApplyFilter     |-> TRUE,
     isUserInitiatedChange |-> FALSE,
     isRestoringBookmark   |-> FALSE,
     presetJustChanged     |-> FALSE,
     clearAllPending       |-> FALSE,
     hasManualSelection    |-> FALSE,
     presetRangeForClear   |-> Null,
     settingsPreset        |-> "none",
     popupOnly             |-> FALSE,
     view                  |-> "none",
     reactSliderWrapper    |-> FALSE,
     timers                |-> [k \in TimerKinds |-> 0]]

HasSelection(s) == s.selectedMinDate # Null /\ s.selectedMaxDate # Null

\* |selectedMin - from| > 1000 || |selectedMax - to| > 1000
SelectionOff(s, r) ==
    \/ AbsDiffMs(s.selectedMinDate, From(r)) > Tolerance
    \/ AbsDiffMs(s.selectedMaxDate, To(r)) > Tolerance

\* An operation threads a context: the fields s and the filter-bus calls w
Ctx(s) == [s |-> s, w |-> <<>>]

\* host.applyJsonFilter(advancedFilter, "general", "filter", merge)
ApplyDateFilter(c, minDate, maxDate) ==
    IF c.s.shouldApplyFilter
    THEN [c EXCEPT !.w = Append(@, MkRange(minDate, maxDate))]
    ELSE c

\* setTimeout(() => { flags of kind := false }, delay)
SetTimeout(c, kind) == [c EXCEPT !.s.timers[kind] = @ + 1]

NormalizeDateRange(minDate, maxDate) ==
    LET normalizedMin == StartOfDay(minDate)
        normalizedMax == EndOfDay(maxDate)
    IN  IF Before(normalizedMax, normalizedMin)
        THEN MkRange(normalizedMin, normalizedMin)
        ELSE MkRange(normalizedMin, normalizedMax)

UpdateSelectedDates(c, minDate, maxDate, source, isPresetChange) ==
    LET n  == NormalizeDateRange(minDate, maxDate)
        c1 == [c EXCEPT !.s.selectedMinDate = From(n),
                        !.s.selectedMaxDate = To(n),
                        !.s.isUserInitiatedChange = TRUE,
                        !.s.shouldApplyFilter = TRUE,
                        !.s.hasManualSelection = IF isPresetChange THEN @ ELSE TRUE]
        c2 == IF source \/ c1.s.currentDataSource
              THEN ApplyDateFilter(c1, From(n), To(n))
              ELSE c1
    IN  SetTimeout(c2, "U")

\* ---------------------------------------------------------------- update()
\* lines 153-170: live preset range, forced into the selection while a
\* clear-all is pending
PresetForClearStep(c, in, P) ==
    LET c1 == [c EXCEPT !.s.presetRangeForClear = P]
    IN  IF c1.s.clearAllPending /\ P # Null /\ IsTimeBased(in.preset)
        THEN [c1 EXCEPT !.s.selectedMinDate = From(P),
                        !.s.selectedMaxDate = To(P),
                        !.s.hasManualSelection = FALSE]
        ELSE c1

\* line 185
BoundsChanged(s, in) ==
    \/ s.dataMinDate = Null \/ s.dataMaxDate = Null
    \/ s.dataMinDate # in.rawMin
    \/ s.dataMaxDate # in.rawMax

\* lines 199-211: Desktop forces a bounds change on a time difference
DesktopForceStep(c, in, boundsChanged) ==
    LET s       == c.s
        minDate == StartOfDay(in.rawMin)
        maxDate == EndOfDay(in.rawMax)
    IN  IF ~in.isService /\ ~boundsChanged
           /\ s.dataMinDate # Null /\ s.dataMaxDate # Null
           /\ AbsDiffMs(s.dataMinDate, minDate) + AbsDiffMs(s.dataMaxDate, maxDate)
                > Tolerance
        THEN [c EXCEPT !.s.dataMinDate = minDate,
                       !.s.dataMaxDate = maxDate,
                       !.s.selectedMinDate = minDate,
                       !.s.selectedMaxDate = maxDate]
        ELSE c

\* lines 214-280: external slicer changed the data bounds
BoundsStep(c, in, P, boundsChanged) ==
    LET s       == c.s
        minDate == StartOfDay(in.rawMin)
        maxDate == EndOfDay(in.rawMax)
        isInitialLoad == s.dataMinDate = Null \/ s.dataMaxDate = Null
        c1 == [c EXCEPT !.s.dataMinDate = minDate, !.s.dataMaxDate = maxDate]
    IN  IF boundsChanged /\ ~s.isRestoringBookmark
        THEN IF HasSelection(s)
             THEN [c1 EXCEPT !.s.selectedMinDate = MaxDate(s.selectedMinDate, minDate),
                             !.s.selectedMaxDate = MinDate(s.selectedMaxDate, maxDate)]
             ELSE IF isInitialLoad /\ P # Null /\ in.preset # "none"
             THEN LET c2 == [c1 EXCEPT !.s.selectedMinDate = From(P),
                                       !.s.selectedMaxDate = To(P),
                                       !.s.activePreset = in.preset,
                                       !.s.lastPresetSetting = in.preset,
                                       !.s.isUserInitiatedChange = TRUE,
                                       !.s.shouldApplyFilter = TRUE]
                  IN  SetTimeout(UpdateSelectedDates(c2, From(P), To(P), TRUE, TRUE), "U")
             ELSE [c1 EXCEPT !.s.selectedMinDate = minDate,
                             !.s.selectedMaxDate = maxDate]
        ELSE IF boundsChanged /\ s.isRestoringBookmark
        THEN c1
        ELSE c

\* lines 359-405: enforce the preset when neither preset nor bounds changed
EnforceUnchangedStep(c, in, P) ==
    LET s == c.s
    IN  IF P # Null /\ in.preset # "none" /\ ~s.hasManualSelection
        THEN IF \/ ~HasSelection(s)
                \/ s.selectedMinDate # From(P)
                \/ s.selectedMaxDate # To(P)
             THEN LET c1 == [c EXCEPT !.s.selectedMinDate = From(P),
                                      !.s.selectedMaxDate = To(P),
                                      !.s.activePreset = in.preset,
                                      !.s.lastPresetSetting = in.preset,
                                      !.s.presetJustChanged = TRUE,
                                      !.s.isUserInitiatedChange = TRUE,
                                      !.s.shouldApplyFilter = TRUE]
                      c2 == UpdateSelectedDates(c1, From(P), To(P), TRUE, TRUE)
                      c3 == ApplyDateFilter(c2, From(P), To(P))
                  IN  SetTimeout(c3, "UP")
             ELSE [c EXCEPT !.s.activePreset = in.preset,
                            !.s.lastPresetSetting = in.preset]
        ELSE IF s.hasManualSelection
        THEN c
        ELSE IF ~HasSelection(s)
        THEN [c EXCEPT !.s.selectedMinDate = StartOfDay(in.rawMin),
                       !.s.selectedMaxDate = EndOfDay(in.rawMax)]
        ELSE c

\* lines 284-414: preset configuration change
PresetChangeStep(c, in, P, boundsChanged) ==
    LET s == c.s
        isPresetChange == s.lastPresetSetting # in.preset
        isInitialPresetLoad == s.lastPresetSetting = NoPreset /\ in.preset # "none"
    IN  IF (isPresetChange \/ isInitialPresetLoad) /\ ~s.isRestoringBookmark
        THEN LET usePreset == P # Null /\ in.preset # "none"
                 presetSelectionMin == IF usePreset THEN From(P) ELSE in.rawMin
                 presetSelectionMax == IF usePreset THEN To(P) ELSE in.rawMax
                 c1 == [c EXCEPT !.s.dataMinDate = in.rawMin,
                                 !.s.dataMaxDate = in.rawMax,
                                 !.s.activePreset = IF usePreset THEN in.preset ELSE NoPreset,
                                 !.s.selectedMinDate = presetSelectionMin,
                                 !.s.selectedMaxDate = presetSelectionMax,
                                 !.s.lastPresetSetting = in.preset,
                                 !.s.presetJustChanged = TRUE,
                                 !.s.isUserInitiatedChange = TRUE,
                                 !.s.shouldApplyFilter = TRUE,
                                 !.s.hasManualSelection = FALSE]
                 c2 == UpdateSelectedDates(c1, presetSelectionMin, presetSelectionMax,
                                           TRUE, TRUE)
                 c3 == ApplyDateFilter(c2, presetSelectionMin, presetSelectionMax)
             IN  SetTimeout(c3, "UP")
        ELSE IF ~boundsChanged
        THEN EnforceUnchangedStep(c, in, P)
        ELSE c

\* lines 419-457: general preset enforcement
GeneralEnforcementStep(c, in, P) ==
    LET s == c.s
    IN  IF /\ P # Null /\ in.preset # "none"
           /\ ~s.isRestoringBookmark /\ ~s.hasManualSelection
           /\ (~HasSelection(s) \/ SelectionOff(s, P))
           /\ s.lastPresetSetting = in.preset
        THEN ApplyDateFilter(
                 [c EXCEPT !.s.selectedMinDate = From(P),
                           !.s.selectedMaxDate = To(P),
                           !.s.activePreset = in.preset,
                           !.s.presetJustChanged = TRUE,
                           !.s.isUserInitiatedChange = TRUE,
                           !.s.shouldApplyFilter = TRUE],
                 From(P), To(P))
        ELSE c

\* lines 461-492: live dates of a time-based preset after a bookmark restore
BookmarkLiveStep(c, in, P) ==
    LET s == c.s
    IN  IF s.isRestoringBookmark /\ P # Null /\ IsTimeBased(in.preset)
        THEN SetTimeout(
                 ApplyDateFilter(
                     [c EXCEPT !.s.selectedMinDate = From(P),
                               !.s.selectedMaxDate = To(P),
                               !.s.activePreset = in.preset,
                               !.s.lastPresetSetting = in.preset,
                               !.s.hasManualSelection = FALSE,
                               !.s.shouldApplyFilter = TRUE,
                               !.s.isUserInitiatedChange = TRUE],
                     From(P), To(P)),
                 "RU")
        ELSE c

\* lines 497-535: a stale selection under a time-based preset
StaleSelectionStep(c, in, P) ==
    LET s == c.s
        selectionIsStale == IsTimeBased(in.preset) /\ P # Null
                            /\ HasSelection(s) /\ SelectionOff(s, P)
        canOverrideManual == ~s.hasManualSelection \/ s.clearAllPending
                             \/ s.isRestoringBookmark
    IN  IF selectionIsStale /\ ~s.isUserInitiatedChange /\ canOverrideManual
        THEN ApplyDateFilter(
                 [c EXCEPT !.s.selectedMinDate = From(P),
                           !.s.selectedMaxDate = To(P),
                           !.s.activePreset = in.preset,
                           !.s.lastPresetSetting = in.preset,
                           !.s.hasManualSelection = FALSE,
                           !.s.shouldApplyFilter = TRUE],
                 From(P), To(P))
        ELSE c

\* lines 548-581: hard enforcement of the live preset after a clear-all
EnforceLivePresetForClearStep(c, in, P) ==
    LET s == c.s
    IN  IF /\ s.clearAllPending /\ IsTimeBased(in.preset) /\ P # Null
           /\ HasSelection(s) /\ SelectionOff(s, P)
        THEN LET c1 == [c EXCEPT !.s.selectedMinDate = From(P),
                                 !.s.selectedMaxDate = To(P),
                                 !.s.hasManualSelection = FALSE,
                                 !.s.shouldApplyFilter = TRUE,
                                 !.s.isUserInitiatedChange = TRUE]
                 c2 == ApplyDateFilter(c1, From(P), To(P))
             IN  SetTimeout([c2 EXCEPT !.s.clearAllPending = FALSE], "U")
        ELSE c

\* lines 583-602: adoption of the external filter range
AdoptExternalStep(c, ext) ==
    LET s == c.s
    IN  IF \/ ~HasSelection(s)
           \/ s.selectedMinDate # From(ext)
           \/ s.selectedMaxDate # To(ext)
        THEN [c EXCEPT !.s.selectedMinDate = From(ext),
                       !.s.selectedMaxDate = To(ext),
                       !.s.shouldApplyFilter = FALSE]
        ELSE c

\* lines 603-669: an external filter arriving while a bookmark is restored
ExternalDuringRestoreStep(c, in) ==
    LET s == c.s
        currentPreset == IF s.lastPresetSetting # NoPreset
                         THEN s.lastPresetSetting ELSE in.preset
        presetRange == CalculatePresetRange(s.dataMinDate, s.dataMaxDate,
                                            currentPreset, in.now)
    IN  IF IsTimeBased(currentPreset) /\ presetRange # Null
        THEN LET c1 == [c EXCEPT !.s.selectedMinDate = From(presetRange),
                                 !.s.selectedMaxDate = To(presetRange),
                                 !.s.presetRangeForClear = presetRange,
                                 !.s.hasManualSelection = FALSE,
                                 !.s.shouldApplyFilter = TRUE,
                                 !.s.isUserInitiatedChange = TRUE]
             IN  SetTimeout(ApplyDateFilter(c1, From(presetRange), To(presetRange)), "U")
        ELSE IF ~IsTimeBased(currentPreset) /\ currentPreset # "none"
                /\ presetRange # Null
        THEN LET c1 == [c EXCEPT !.s.selectedMinDate = From(presetRange),
                                 !.s.selectedMaxDate = To(presetRange),
                                 !.s.presetRangeForClear = presetRange,
                                 !.s.shouldApplyFilter = TRUE,
                                 !.s.isUserInitiatedChange = TRUE]
             IN  SetTimeout(ApplyDateFilter(c1, From(presetRange), To(presetRange)), "U")
        ELSE c

\* lines 670-731: external "clear all slicers"
ClearAllStep(c, in) ==
    LET s == c.s
        currentPreset == IF s.lastPresetSetting # NoPreset
                         THEN s.lastPresetSetting ELSE in.preset
        presetRange == IF currentPreset # "none"
                       THEN CalculatePresetRange(s.dataMinDate, s.dataMaxDate,
                                                 currentPreset, in.now)
                       ELSE Null
    IN  IF s.clearAllPending
        THEN c
        ELSE LET c1 == IF presetRange # Null
                       THEN [c EXCEPT !.s.clearAllPending = TRUE,
                                      !.s.selectedMinDate = From(presetRange),
                                      !.s.selectedMaxDate = To(presetRange),
                                      !.s.activePreset = currentPreset,
                                      !.s.lastPresetSetting = currentPreset]
                       ELSE [c EXCEPT !.s.clearAllPending = TRUE,
                                      !.s.selectedMinDate = s.dataMinDate,
                                      !.s.selectedMaxDate = s.dataMaxDate,
                                      !.s.activePreset = NoPreset]
                 c2 == [c1 EXCEPT !.s.hasManualSelection = FALSE,
                                  !.s.shouldApplyFilter = TRUE,
                                  !.s.isUserInitiatedChange = TRUE]
                 c3 == ApplyDateFilter(c2, c2.s.selectedMinDate, c2.s.selectedMaxDate)
             IN  SetTimeout(SetTimeout(c3, "U"), "C")

\* lines 583-735 with the adoption branch not guarded by isRestoringBookmark
ExternalFilterStepAdopting(c, in, ext) ==
    LET s == c.s
    IN  IF ext # Null /\ ~s.isUserInitiatedChange
        THEN AdoptExternalStep(c, ext)
        ELSE IF ~s.isUserInitiatedChange /\ ext = Null
                /\ s.dataMinDate # Null /\ s.dataMaxDate # Null
        THEN ClearAllStep(c, in)
        ELSE [c EXCEPT !.s.clearAllPending = FALSE]

\* lines 583-735: which source the external filter state selects
ExternalFilterStep(c, in, ext) ==
    LET s == c.s
    IN  IF ext # Null /\ ~s.isUserInitiatedChange /\ ~s.isRestoringBookmark
        THEN AdoptExternalStep(c, ext)
        ELSE IF ext # Null /\ s.isRestoringBookmark
        THEN ExternalDuringRestoreStep(c, in)
        ELSE IF ~s.isUserInitiatedChange /\ ext = Null
                /\ s.dataMinDate # Null /\ s.dataMaxDate # Null
        THEN ClearAllStep(c, in)
        ELSE [c EXCEPT !.s.clearAllPending = FALSE]

\* lines 747-808: the write-back decision of the tick
WriteBackStep(c, boundsChanged, filtersCleared) ==
    LET s == c.s
        shouldApply ==
            /\ s.shouldApplyFilter /\ HasSelection(s)
            /\ \/ s.presetJustChanged
               \/ /\ (~boundsChanged \/ s.isUserInitiatedChange \/ s.isRestoringBookmark)
                  /\ (s.isUserInitiatedChange \/ ~filtersCleared \/ s.isRestoringBookmark)
        forceApplyForPreset == s.presetJustChanged /\ HasSelection(s)
        forceApplyForBookmark == s.isRestoringBookmark /\ HasSelection(s)
                                 /\ s.shouldApplyFilter
    IN  IF shouldApply \/ forceApplyForPreset \/ forceApplyForBookmark
        THEN LET c1 == ApplyDateFilter([c EXCEPT !.s.shouldApplyFilter = TRUE],
                                       s.selectedMinDate, s.selectedMaxDate)
             IN  IF s.isRestoringBookmark THEN SetTimeout(c1, "RU") ELSE c1
        ELSE c

\* renderDateCard, lines 1256-1274
ShouldUsePresetRange(s, P) ==
    LET isTimeBasedPreset == IsTimeBased(s.settingsPreset)
        isClearOrBookmark == s.isRestoringBookmark \/ s.clearAllPending
        presetDiffersFromSelection == P # Null /\ HasSelection(s) /\ SelectionOff(s, P)
    IN  /\ P # Null /\ ~s.hasManualSelection
        /\ \/ isTimeBasedPreset /\ (isClearOrBookmark \/ presetDiffersFromSelection)
           \/ ~isTimeBasedPreset /\ presetDiffersFromSelection
              /\ s.settingsPreset # "none"

\* renderDateCard, lines 1276-1294: prefer the live preset range
UsePresetRangeStep(c, P) ==
    IF ShouldUsePresetRange(c.s, P)
    THEN LET c1 == [c EXCEPT !.s.selectedMinDate = From(P),
                             !.s.selectedMaxDate = To(P)]
             c2 == IF c.s.currentDataSource
                   THEN ApplyDateFilter(c1, From(P), To(P)) ELSE c1
         IN  [c2 EXCEPT !.s.isRestoringBookmark = FALSE,
                        !.s.clearAllPending = FALSE,
                        !.s.hasManualSelection = FALSE]
    ELSE c

\* renderDateCard, lines 1298-1316: force the preset after an external clear
ForcePresetAfterClearStep(c, P, currentMinToUse, currentMaxToUse) ==
    LET s == c.s
    IN  IF /\ s.clearAllPending /\ P # Null /\ IsTimeBased(s.settingsPreset)
           /\ \/ AbsDiffMs(currentMinToUse, From(P)) > Tolerance
              \/ AbsDiffMs(currentMaxToUse, To(P)) > Tolerance
        THEN LET c1 == [c EXCEPT !.s.selectedMinDate = From(P),
                                 !.s.selectedMaxDate = To(P),
                                 !.s.hasManualSelection = FALSE]
             IN  IF s.currentDataSource
                 THEN ApplyDateFilter(c1, From(P), To(P)) ELSE c1
        ELSE c

\* renderDateCard(this.dataMinDate, this.dataMaxDate, ..., presetRangeForClear)
RenderDateCard(c, P) ==
    IF c.s.popupOnly
    THEN [c EXCEPT !.s.view = "popup"]
    ELSE LET s      == c.s
             used   == ShouldUsePresetRange(s, P)
             curMin == IF used THEN From(P)
                       ELSE IF s.selectedMinDate # Null THEN s.selectedMinDate
                       ELSE s.dataMinDate
             curMax == IF used THEN To(P)
                       ELSE IF s.selectedMaxDate # Null THEN s.selectedMaxDate
                       ELSE s.dataMaxDate
             c1 == UsePresetRangeStep(c, P)
             c2 == ForcePresetAfterClearStep(c1, P, curMin, curMax)
         IN  [c2 EXCEPT !.s.view = "slider", !.s.reactSliderWrapper = TRUE]

\* the engine of update(): lines 147-839, for a column with valid dates
Engine(c, in) ==
    LET P  == CalculatePresetRange(c.s.dataMinDate, c.s.dataMaxDate, in.preset, in.now)
        boundsChanged == BoundsChanged(c.s, in)
        c1 == PresetForClearStep(c, in, P)
        c2 == DesktopForceStep(c1, in, boundsChanged)
        c3 == BoundsStep(c2, in, P, boundsChanged)
        c4 == PresetChangeStep(c3, in, P, boundsChanged)
        c5 == GeneralEnforcementStep(c4, in, P)
        c6 == BookmarkLiveStep(c5, in, P)
        c7 == StaleSelectionStep(c6, in, P)
        ext == GetDateRangeFromFilters(in.filters)
        c8 == EnforceLivePresetForClearStep(c7, in, P)
        c9 == ExternalFilterStep(c8, in, ext)
        c10 == WriteBackStep(c9, boundsChanged, ext = Null)
    IN  RenderDateCard(c10, P)

\* update(options) dropping the selection when it renders a message
UpdateDroppingSelection(s, in) ==
    IF in.kind = "ok"
    THEN Engine(Ctx([s EXCEPT !.settingsPreset = in.preset, !.popupOnly = in.popup,
                              !.currentDataSource = TRUE]), in)
    ELSE [Ctx(s) EXCEPT !.s.view = "message",
                        !.s.selectedMinDate = Null,
                        !.s.selectedMaxDate = Null]

\* update(options)
Update(s, in) ==
    IF in.kind = "noDataView"
    THEN [Ctx(s) EXCEPT !.s.view = "message"]
    ELSE LET c0 == Ctx([s EXCEPT !.settingsPreset = in.preset,
                                 !.popupOnly = in.popup])
         IN  CASE in.kind = "noCategory"   -> [c0 EXCEPT !.s.view = "message"]
               [] in.kind = "hierarchy"    -> [c0 EXCEPT !.s.view = "message"]
               [] in.kind = "noValidDates" -> [c0 EXCEPT !.s.view = "message",
                                                         !.s.currentDataSource = TRUE]
               [] in.kind = "ok" -> Engine([c0 EXCEPT !.s.currentDataSource = TRUE], in)

\* --------------------------------------------------- presentation callbacks
\* renderDateCard.onDateChange (slider release, inline calendar, typed date)
OnDateChange(s, newMinDate, newMaxDate) ==
    LET c1 == Ctx([s EXCEPT !.hasManualSelection = TRUE,
                            !.selectedMinDate = newMinDate,
                            !.selectedMaxDate = newMaxDate])
    IN  IF s.currentDataSource
        THEN ApplyDateFilter(c1, newMinDate, newMaxDate)
        ELSE c1

\* handleDialogResult with an OK result carrying both dates
HandleDialogResult(s, fromDate, toDate) ==
    UpdateSelectedDates(Ctx(s), fromDate, toDate, FALSE, FALSE)

\* DateRangePicker.handleFromDateChange: a complete date typed into the "from"
\* box is handed to onDateChange with the "to" prop of the picker
HandleFromDateChange(s, to, parsedDate) ==
    LET normalizedTo == IF to # Null THEN to ELSE parsedDate
    IN  OnDateChange(s, parsedDate, normalizedTo)

\* ------------------------------------------------------------------ bookmarks
\* getBookmarkState() persisting the selection and the data bounds as well
GetBookmarkStateWithDates(s) ==
    [lastPreset       |-> s.activePreset,
     isClearSelection |-> FALSE,
     selectedMinDate  |-> s.selectedMinDate,
     selectedMaxDate  |-> s.selectedMaxDate,
     dataMinDate      |-> s.dataMinDate,
     dataMaxDate      |-> s.dataMaxDate]

\* getBookmarkState()
GetBookmarkState(s) ==
    [lastPreset       |-> s.activePreset,
     isClearSelection |-> FALSE,
     selectedMinDate  |-> Null,
     selectedMaxDate  |-> Null,
     dataMinDate      |-> Null,
     dataMaxDate      |-> Null]

\* clearSelectionWithCurrentData()
ClearSelectionWithCurrentData(c, now) ==
    LET s == c.s
        selectedPreset == IF s.lastPresetSetting # NoPreset
                          THEN s.lastPresetSetting ELSE s.settingsPreset
        presetRange == IF selectedPreset # "none"
                       THEN CalculatePresetRange(s.dataMinDate, s.dataMaxDate,
                                                 selectedPreset, now)
                       ELSE Null
        c1 == IF presetRange # Null
              THEN [c EXCEPT !.s.selectedMinDate = From(presetRange),
                             !.s.selectedMaxDate = To(presetRange),
                             !.s.activePreset = selectedPreset,
                             !.s.lastPresetSetting = selectedPreset,
                             !.s.hasManualSelection = FALSE]
              ELSE [c EXCEPT !.s.selectedMinDate = s.dataMinDate,
                             !.s.selectedMaxDate = s.dataMaxDate,
                             !.s.activePreset = NoPreset,
                             !.s.hasManualSelection = FALSE]
        usePresetForClear == c1.s.presetRangeForClear # Null /\ c1.s.isRestoringBookmark
        minDateToApply == IF usePresetForClear THEN From(c1.s.presetRangeForClear)
                          ELSE c1.s.selectedMinDate
        maxDateToApply == IF usePresetForClear THEN To(c1.s.presetRangeForClear)
                          ELSE c1.s.selectedMaxDate
    IN  IF s.currentDataSource /\ minDateToApply # Null /\ maxDateToApply # Null
        THEN SetTimeout(
                 ApplyDateFilter([c1 EXCEPT !.s.shouldApplyFilter = TRUE,
                                            !.s.isUserInitiatedChange = TRUE],
                                 minDateToApply, maxDateToApply),
                 "U")
        ELSE c1

\* restoreBookmarkState(state), lines 1908-1932: the clear-selection bookmark
RestoreClearSelection(c, state, now) ==
    LET clearPreset == IF state.lastPreset # NoPreset /\ state.lastPreset # "none"
                       THEN state.lastPreset ELSE c.s.settingsPreset
        c1 == IF clearPreset # "none"
              THEN [c EXCEPT !.s.lastPresetSetting = clearPreset,
                             !.s.activePreset = clearPreset]
              ELSE c
    IN  SetTimeout(ClearSelectionWithCurrentData(c1, now), "RU")

\* restoreBookmarkState(state), lines 1994-2047: no time-based preset
RestoreStoredDates(c, state, detectedPreset, now) ==
    LET s == c.s
        presetRange == CalculatePresetRange(s.dataMinDate, s.dataMaxDate,
                                            detectedPreset, now)
        c1 == IF state.selectedMinDate # Null /\ state.selectedMaxDate # Null
              THEN IF detectedPreset # NoPreset /\ detectedPreset # "none"
                      /\ presetRange # Null
                   THEN [c EXCEPT !.s.selectedMinDate = From(presetRange),
                                  !.s.selectedMaxDate = To(presetRange),
                                  !.s.presetRangeForClear = presetRange]
                   ELSE [c EXCEPT !.s.selectedMinDate = state.selectedMinDate,
                                  !.s.selectedMaxDate = state.selectedMaxDate]
              ELSE c
        c2 == [c1 EXCEPT !.s.dataMinDate = IF state.dataMinDate # Null
                                           THEN state.dataMinDate ELSE @,
                         !.s.dataMaxDate = IF state.dataMaxDate # Null
                                           THEN state.dataMaxDate ELSE @]
        c3 == IF state.lastPreset # NoPreset /\ state.lastPreset # "none"
              THEN [c2 EXCEPT !.s.activePreset = state.lastPreset,
                              !.s.lastPresetSetting = state.lastPreset]
              ELSE c2
        c4 == IF c3.s.currentDataSource /\ HasSelection(c3.s)
              THEN [ApplyDateFilter(c3, c3.s.selectedMinDate, c3.s.selectedMaxDate)
                        EXCEPT !.s.shouldApplyFilter = TRUE,
                               !.s.isUserInitiatedChange = TRUE]
              ELSE c3
    IN  SetTimeout(c4, "RU")

\* restoreBookmarkState(state)
RestoreBookmarkState(s, state, now) ==
    LET c0 == Ctx([s EXCEPT !.isRestoringBookmark = TRUE])
        detectedPreset ==
            IF state.lastPreset # NoPreset THEN state.lastPreset
            ELSE IF s.activePreset # NoPreset THEN s.activePreset
            ELSE IF s.settingsPreset # "none" THEN s.settingsPreset
            ELSE NoPreset
        presetRange == CalculatePresetRange(s.dataMinDate, s.dataMaxDate,
                                            detectedPreset, now)
    IN  IF state.isClearSelection
        THEN RestoreClearSelection(c0, state, now)
        ELSE IF IsTimeBased(detectedPreset) /\ presetRange # Null
        THEN LET c1 == [c0 EXCEPT !.s.selectedMinDate = From(presetRange),
                                  !.s.selectedMaxDate = To(presetRange),
                                  !.s.presetRangeForClear = presetRange,
                                  !.s.hasManualSelection = FALSE,
                                  !.s.activePreset = detectedPreset,
                                  !.s.lastPresetSetting = detectedPreset,
                                  !.s.shouldApplyFilter = TRUE,
                                  !.s.isUserInitiatedChange = TRUE]
             IN  IF s.currentDataSource
                 THEN ApplyDateFilter(c1, From(presetRange), To(presetRange))
                 ELSE c1
        ELSE RestoreStoredDates(c0, state, detectedPreset, now)

\* clearSelection()
ClearSelection(s, now) ==
    LET c == Ctx(s)
        selectedPreset == IF s.lastPresetSetting # NoPreset
                          THEN s.lastPresetSetting ELSE s.settingsPreset
        presetRange == IF selectedPreset # "none"
                       THEN CalculatePresetRange(s.dataMinDate, s.dataMaxDate,
                                                 selectedPreset, now)
                       ELSE Null
        c1 == IF presetRange # Null
              THEN [c EXCEPT !.s.selectedMinDate = From(presetRange),
                             !.s.selectedMaxDate = To(presetRange),
                             !.s.activePreset = selectedPreset,
                             !.s.lastPresetSetting = selectedPreset,
                             !.s.hasManualSelection = FALSE]
              ELSE [c EXCEPT !.s.selectedMinDate = s.dataMinDate,
                             !.s.selectedMaxDate = s.dataMaxDate,
                             !.s.activePreset = NoPreset,
                             !.s.hasManualSelection = FALSE]
        c2 == [c1 EXCEPT !.s.shouldApplyFilter = TRUE,
                         !.s.isUserInitiatedChange = TRUE]
        c3 == IF s.currentDataSource /\ HasSelection(c1.s)
              THEN SetTimeout(ApplyDateFilter(c2, c2.s.selectedMinDate,
                                              c2.s.selectedMaxDate), "U")
              ELSE c2
    IN  IF s.reactSliderWrapper /\ HasSelection(c3.s)
        THEN [c3 EXCEPT !.s.presetRangeForClear = presetRange]
        ELSE c3

\* a pending reset timer of the given kind fires
FireTimer(s, kind) ==
    LET s1 == [s EXCEPT !.timers[kind] = @ - 1]
    IN  CASE kind = "U"  -> [s1 EXCEPT !.isUserInitiatedChange = FALSE]
          [] kind = "UP" -> [s1 EXCEPT !.isUserInitiatedChange = FALSE,
                                       !.presetJustChanged = FALSE]
          [] kind = "RU" -> [s1 EXCEPT !.isRestoringBookmark = FALSE,
                                       !.isUserInitiatedChange = FALSE]
          [] kind = "C"  -> [s1 EXCEPT !.clearAllPending = FALSE]

\* ------------------------------------------------------------- environment
Inst == {1, 2}

\* the values of the bound date column delivered by a tick: minimum, maximum
DataMins == {MkDate(FirstClockDay - 1, 0)}
DataMaxs == {MkDate(FirstClockDay, 0)} \cup
            {MkDate(FirstClockDay + d, m) : d \in 1 .. MaxDataDay, m \in {0, DayMs - 1}}

\* the preset chosen in the format pane
SettingPresets == {"none", "yesterday", "maxDate"}

\* ranges a user can pick in the slider, the calendar or the dialog
UserRanges == {MkRange(MkDate(FirstClockDay - 1, 0), MkDate(FirstClockDay, DayMs - 1)),
               MkRange(MkDate(FirstClockDay, 0), MkDate(FirstClockDay, DayMs - 1))}

\* a range set by another slicer of the dashboard
ForeignRange == MkRange(MkDate(FirstClockDay - 1, 0), MkDate(FirstClockDay - 1, DayMs - 1))

\* a filter that getDateRangeFromFilters cannot decode
OtherColumnFilter ==
    [target     |-> OtherColumn,
     conditions |-> Encode(From(ForeignRange), To(ForeignRange)).conditions]

\* what options.jsonFilters can hold on a tick, given the filter on the bus
JsonFilters(busNow) ==
    { <<>>, busNow, <<Encode(From(ForeignRange), To(ForeignRange))>>,
      <<OtherColumnFilter>> }

\* ticks that stop before the engine runs
IdleKinds == {"noDataView", "noCategory", "hierarchy", "noValidDates"}

\* bookmark blobs handed to restoreBookmarkState
Blobs ==
    { [lastPreset |-> p, isClearSelection |-> b,
       selectedMinDate |-> From(d), selectedMaxDate |-> To(d),
       dataMinDate |-> Null, dataMaxDate |-> Null] :
         p \in {NoPreset, "yesterday", "maxDate"},
         b \in BOOLEAN,
         d \in {MkRange(Null, Null), ForeignRange} }

NoInput == [kind |-> "none", rawMin |-> Null, rawMax |-> Null, filters |-> <<>>,
            preset |-> "none", popup |-> FALSE]

VARIABLES
    vis,        \* the fields of each Visual instance
    now,        \* the calendar day of the clock
    isService,  \* window.location.hostname is app.powerbi.com
    popupMode,  \* the "Pop Up Mode" toggle of the format pane
    bus,        \* the dashboard filter of the bound column: <<>> or <<filter>>
    last,       \* the last operation: instance, name, its filter-bus calls;
                \* writer: the instance of the latest filter-bus call;
                \* fresh: only reset timers have fired since that call
    hist,       \* per instance: number of ticks, input of the latest tick,
                \* the range of the latest onDateChange / dialog result, the
                \* preset carried by the blob of the latest
                \* restoreBookmarkState and the clock day of that call (0: none),
                \* the "Recalculate preset on bookmark restore" toggle then,
                \* the parity of the number of echo ticks
    userOps,    \* number of user and bookmark operations so far
    pure        \* a call of a pure function: its name, arguments and result

vars == <<vis, now, isService, popupMode, bus, last, hist, userOps, pure>>

\* no pure-function call is being observed
NoPure == [fn |-> "none", in |-> [range |-> <<>>, preset |-> "none", now |-> 0],
           out |-> <<>>, done |-> FALSE]

TimersOk(s) == \A k \in TimerKinds : s.timers[k] <= MaxTimers

NoTimerPending(s) == \A k \in TimerKinds : s.timers[k] = 0

Init ==
    /\ vis = [i \in Inst |-> NewVisual]
    /\ now = FirstClockDay
    /\ isService \in BOOLEAN
    /\ popupMode \in BOOLEAN
    /\ bus = <<>>
    /\ last = [inst |-> 0, op |-> "init", w |-> <<>>, writer |-> 0, fresh |-> FALSE]
    /\ hist = [i \in Inst |-> [ticks |-> 0, in |-> NoInput, userSel |-> Null,
                              blobPreset |-> NoPreset, blobDay |-> 0,
                              recalc |-> TRUE, echo |-> 0]]
    /\ userOps = 0
    /\ pure = NoPure

\* host.applyJsonFilter(advancedFilter, "general", "filter", FilterAction.remove)
ApplyJsonFilterRemove(r) ==
    [filter       |-> Encode(From(r), To(r)),
     objectName   |-> "general",
     propertyName |-> "filter",
     action       |-> "remove"]

\* the call applyDateFilter makes for the range r:
\* host.applyJsonFilter(advancedFilter, "general", "filter", FilterAction.merge)
ApplyJsonFilter(r) ==
    [filter       |-> Encode(From(r), To(r)),
     objectName   |-> "general",
     propertyName |-> "filter",
     action       |-> "merge"]

\* the filter of the column once the host has executed the call: merge keeps
\* the predicate of the call, remove leaves none
HostFilter(call) == IF call.action = "merge" THEN <<call.filter>> ELSE <<>>

\* the host keeps the last predicate written for the column
BusAfter(w) == IF w = <<>> THEN bus
               ELSE HostFilter(ApplyJsonFilter(w[Len(w)]))

Commit(i, op, c) ==
    /\ TimersOk(c.s)
    /\ vis' = [vis EXCEPT ![i] = c.s]
    /\ bus' = BusAfter(c.w)
    /\ last' = [inst |-> i, op |-> op, w |-> c.w,
                writer |-> IF c.w = <<>> THEN last.writer ELSE i,
                fresh  |-> IF c.w = <<>> THEN op = "timer" /\ last.fresh ELSE TRUE]
    /\ UNCHANGED <<now, isService, popupMode, pure>>

TickWith(i, in) ==
    /\ hist[i].ticks < MaxTicks
    /\ UNCHANGED userOps
    /\ Commit(i, "tick", Update(vis[i], in @@ [now |-> now, isService |-> isService]))
    /\ hist' = [hist EXCEPT ![i].in = in, ![i].ticks = @ + 1]

\* the host calls update(options) on instance i with a column of valid dates
Tick(i) ==
    \E rawMin \in DataMins, rawMax \in DataMaxs,
       filters \in JsonFilters(bus), preset \in SettingPresets :
        TickWith(i, [kind |-> "ok", rawMin |-> rawMin, rawMax |-> rawMax,
                     filters |-> filters, preset |-> preset, popup |-> popupMode])

\* the host calls update(options) without usable dates
IdleTick(i) ==
    \E kind \in IdleKinds, preset \in SettingPresets :
        TickWith(i, [NoInput EXCEPT !.kind = kind, !.preset = preset,
                                    !.popup = popupMode])

UserChange(i) ==
    /\ userOps < MaxUserOps
    /\ userOps' = userOps + 1
    /\ vis[i].view = "slider"
    /\ \E r \in UserRanges :
        /\ Commit(i, "onChange", OnDateChange(vis[i], From(r), To(r)))
        /\ hist' = [hist EXCEPT ![i].userSel = r, ![i].blobPreset = NoPreset,
                                ![i].blobDay = 0, ![i].recalc = TRUE]

DialogResult(i) ==
    /\ userOps < MaxUserOps
    /\ userOps' = userOps + 1
    /\ vis[i].view \in {"slider", "popup"}
    /\ \E r \in UserRanges :
        /\ Commit(i, "dialog", HandleDialogResult(vis[i], From(r), To(r)))
        /\ hist' = [hist EXCEPT ![i].userSel = r, ![i].blobPreset = NoPreset,
                                ![i].blobDay = 0, ![i].recalc = TRUE]

\* the "Recalculate preset on bookmark restore" toggle of the format pane:
\* true by default, any value once update() has populated the settings
RecalculatePresetOnBookmark(s) == IF s.currentDataSource THEN BOOLEAN ELSE {TRUE}

\* the host calls restoreBookmarkState(state) on instance i, the toggle
\* having one of the given values
RestoreWith(i, toggles) ==
    \E state \in Blobs, recalc \in toggles :
        /\ Commit(i, "restore", RestoreBookmarkState(vis[i], state, now))
        /\ hist' = [hist EXCEPT ![i].userSel = Null,
                                ![i].blobPreset = state.lastPreset,
                                ![i].blobDay = now,
                                ![i].recalc = recalc]

Restore(i) ==
    /\ userOps < MaxUserOps
    /\ userOps' = userOps + 1
    /\ RestoreWith(i, {TRUE})

Clear(i) ==
    /\ userOps < MaxUserOps
    /\ userOps' = userOps + 1
    /\ Commit(i, "clear", ClearSelection(vis[i], now))
    /\ hist' = [hist EXCEPT ![i].userSel = Null, ![i].blobPreset = NoPreset,
                                ![i].blobDay = 0, ![i].recalc = TRUE]

Timer(i) ==
    \E k \in TimerKinds :
        /\ vis[i].timers[k] > 0
        /\ Commit(i, "timer", Ctx(FireTimer(vis[i], k)))
        /\ UNCHANGED <<hist, userOps>>

ClockAdvance ==
    /\ now < FirstClockDay + MaxClockSteps
    /\ now' = now + 1
    /\ last' = [inst |-> 0, op |-> "clock", w |-> <<>>, writer |-> last.writer,
                fresh |-> FALSE]
    /\ UNCHANGED <<vis, isService, popupMode, bus, hist, userOps, pure>>

Next ==
    \/ Tick(1)
    \/ IdleTick(1)
    \/ UserChange(1)
    \/ DialogResult(1)
    \/ Restore(1)
    \/ Clear(1)
    \/ Timer(1)
    \/ ClockAdvance

Spec == Init /\ [][Next]_vars

\* ------------------------------------------- closed loop with an echoing host
\* the first update(options) of the instance
FirstTick(i) == hist[i].ticks = 0 /\ Tick(i)

\* the host answers a filter-bus call of instance i with an update(options)
\* that presents the written predicate; data and configuration are unchanged
EchoTick(i) ==
    /\ last.fresh /\ last.writer = i
    /\ hist[i].in.kind = "ok"
    /\ LET in == [hist[i].in EXCEPT !.filters = bus]
       IN  /\ Commit(i, "tick", Update(vis[i], in @@ [now |-> now, isService |-> isService]))
           /\ hist' = [hist EXCEPT ![i].in = in, ![i].echo = 1 - @]
    /\ UNCHANGED userOps

EchoNext ==
    \/ FirstTick(1)
    \/ UserChange(1)
    \/ EchoTick(1)
    \/ Timer(1)

EchoSpec == Init /\ [][EchoNext]_vars

\* ------------------------------------ two synced instances on one filter bus
\* the host calls update(options) on instance i with the filter of the bus;
\* both instances are bound to the same column and see the same dates, and
\* the preset of an instance is the one of its format pane
SyncTick(i) ==
    \E rawMin \in DataMins, rawMax \in DataMaxs, preset \in SettingPresets :
        /\ \A j \in Inst : hist[j].in.kind = "ok" =>
               hist[j].in.rawMin = rawMin /\ hist[j].in.rawMax = rawMax
        /\ hist[i].in.kind = "ok" => hist[i].in.preset = preset
        /\ TickWith(i, [kind |-> "ok", rawMin |-> rawMin, rawMax |-> rawMax,
                        filters |-> bus, preset |-> preset, popup |-> popupMode])

\* the user picks a range on instance 1 once both instances are on screen and
\* their reset timers have expired
SyncUserChange ==
    /\ hist[2].ticks > 0
    /\ NoTimerPending(vis[1]) /\ NoTimerPending(vis[2])
    /\ UserChange(1)

SyncNext ==
    \/ SyncTick(1)
    \/ SyncTick(2)
    \/ SyncUserChange
    \/ Timer(1)
    \/ Timer(2)

SyncSpec == Init /\ [][SyncNext]_vars

\* ------------------------------------------- ticks with undecodable filters
OtherTable == [table |-> "Orders", column |-> "Date"]

\* filters on options.jsonFilters that getDateRangeFromFilters cannot decode:
\* another column, another table, no conditions, one bound only, a value that
\* is no date
UndecodableFilters ==
    { OtherColumnFilter,
      [target     |-> OtherTable,
       conditions |-> Encode(From(ForeignRange), To(ForeignRange)).conditions],
      [target     |-> BoundColumn, conditions |-> <<>>],
      [target     |-> BoundColumn,
       conditions |-> << [operator |-> "GreaterThanOrEqual",
                          value    |-> ToISOString(From(ForeignRange))] >>],
      [target     |-> BoundColumn,
       conditions |-> << [operator |-> "LessThanOrEqual",
                          value    |-> ToISOString(To(ForeignRange))] >>],
      [target     |-> BoundColumn,
       conditions |-> << [operator |-> "GreaterThanOrEqual",
                          value    |-> [fmt |-> "text", day |-> 0, ms |-> 0]],
                         [operator |-> "LessThanOrEqual",
                          value    |-> ToISOString(To(ForeignRange))] >>] }

\* the host calls update(options) with one undecodable filter
FilterTick(i) ==
    \E rawMin \in DataMins, rawMax \in DataMaxs,
       f \in UndecodableFilters, preset \in SettingPresets :
        TickWith(i, [kind |-> "ok", rawMin |-> rawMin, rawMax |-> rawMax,
                     filters |-> <<f>>, preset |-> preset, popup |-> popupMode])

FilterNext ==
    \/ FirstTick(1)
    \/ FilterTick(1)
    \/ UserChange(1)
    \/ Restore(1)
    \/ Timer(1)

FilterSpec == Init /\ [][FilterNext]_vars

\* -------------------------------------- a bookmark clicked after a user pick
\* the host calls restoreBookmarkState once the user has picked a range
BookmarkRestore(i) ==
    /\ hist[i].userSel # Null
    /\ UNCHANGED userOps
    /\ RestoreWith(i, RecalculatePresetOnBookmark(vis[i]))

BookmarkNext ==
    \/ Tick(1)
    \/ UserChange(1)
    \/ DialogResult(1)
    \/ BookmarkRestore(1)
    \/ Timer(1)

BookmarkSpec == Init /\ [][BookmarkNext]_vars

\* ------------------------- typed dates and a column that loses its first day
\* the dates a user can type into the "from" box: any day, at local midnight
TypedDates == {MkDate(d, 0) : d \in FirstClockDay - 1 .. FirstClockDay + 1}

\* the user types a complete from-date into the picker rendered by the latest
\* tick; the picker still holds the "to" date it was rendered with
TypedFromDate(i) ==
    /\ userOps < MaxUserOps
    /\ userOps' = userOps + 1
    /\ vis[i].view = "slider"
    /\ last.op \in {"tick", "timer"} /\ ~vis[i].clearAllPending
    /\ \E d \in TypedDates :
        /\ Commit(i, "onChange",
                  HandleFromDateChange(vis[i], vis[i].selectedMaxDate, d))
        /\ hist' = [hist EXCEPT ![i].userSel =
                                    MkRange(d, IF vis[i].selectedMaxDate # Null
                                               THEN vis[i].selectedMaxDate ELSE d),
                                ![i].blobPreset = NoPreset,
                                ![i].blobDay = 0, ![i].recalc = TRUE]

\* a later update(options) whose column no longer holds its earliest day
NarrowedTick(i) ==
    /\ hist[i].ticks > 0
    /\ \E rawMax \in DataMaxs, filters \in JsonFilters(bus), preset \in SettingPresets :
        TickWith(i, [kind |-> "ok", rawMin |-> MkDate(FirstClockDay, 0),
                     rawMax |-> rawMax, filters |-> filters, preset |-> preset,
                     popup |-> popupMode])

OrderNext ==
    \/ FirstTick(1)
    \/ NarrowedTick(1)
    \/ TypedFromDate(1)
    \/ Restore(1)
    \/ Timer(1)

OrderSpec == Init /\ [][OrderNext]_vars

\* ------------------------------------------------ the pure functions alone
\* instants around the day boundaries of local time and of UTC
PureDates == {MkDate(d, m) : d \in (FirstClockDay - 1) .. (FirstClockDay + MaxDataDay),
                             m \in {0, 1, TzOffsetMs - 1, TzOffsetMs, DayMs - 1}}

\* valid ranges: from <= to
PureRanges == {r \in PureDates \X PureDates : ~Before(To(r), From(r))}

\* the data bounds held by the instance when calculatePresetRange runs
PureBounds == {MkRange(Null, Null),
               MkRange(MkDate(FirstClockDay - 1, 0), MkDate(FirstClockDay, DayMs - 1)),
               MkRange(MkDate(FirstClockDay - 1, 0), MkDate(FirstClockDay - 1, DayMs - 1)),
               MkRange(MkDate(FirstClockDay + 1, 0), MkDate(FirstClockDay + 1, DayMs - 1))}

PureInputs ==
    {[fn |-> "codec", in |-> [range |-> r, preset |-> "none", now |-> FirstClockDay],
      out |-> <<>>, done |-> FALSE] : r \in PureRanges}
    \cup
    {[fn |-> "preset", in |-> [range |-> b, preset |-> p, now |-> n],
      out |-> <<>>, done |-> FALSE] :
        b \in PureBounds, p \in AllPresets \ {"none"}, n \in ClockDays}

PureInit ==
    /\ vis = [i \in Inst |-> NewVisual]
    /\ now = FirstClockDay
    /\ isService = FALSE
    /\ popupMode = FALSE
    /\ bus = <<>>
    /\ last = [inst |-> 0, op |-> "init", w |-> <<>>, writer |-> 0, fresh |-> FALSE]
    /\ hist = [i \in Inst |-> [ticks |-> 0, in |-> NoInput, userSel |-> Null,
                              blobPreset |-> NoPreset, blobDay |-> 0,
                              recalc |-> TRUE, echo |-> 0]]
    /\ userOps = 0
    /\ pure \in PureInputs

\* applyDateFilter builds the filter of a range, getDateRangeFromFilters
\* reads it back
CodecCall ==
    /\ pure.fn = "codec" /\ ~pure.done
    /\ pure' = [pure EXCEPT
                   !.out = GetDateRangeFromFilters(<<Encode(From(pure.in.range),
                                                           To(pure.in.range))>>),
                   !.done = TRUE]
    /\ UNCHANGED <<vis, now, isService, popupMode, bus, last, hist, userOps>>

\* calculatePresetRange(preset) with the given bounds and clock
PresetCall ==
    /\ pure.fn = "preset" /\ ~pure.done
    /\ pure' = [pure EXCEPT
                   !.out = [window |-> PresetWindow(From(pure.in.range), To(pure.in.range),
                                                    pure.in.preset, pure.in.now),
                            range  |-> CalculatePresetRange(From(pure.in.range),
                                                            To(pure.in.range),
                                                            pure.in.preset, pure.in.now)],
                   !.done = TRUE]
    /\ UNCHANGED <<vis, now, isService, popupMode, bus, last, hist, userOps>>

PureNext ==
    \/ CodecCall
    \/ PresetCall

PureSpec == PureInit /\ [][PureNext]_vars

\* ===================================================================== claims
Selection(s) == MkRange(s.selectedMinDate, s.selectedMaxDate)

\* the whole-day bounds of the column delivered by the latest tick
TickBounds(in) == MkRange(StartOfDay(in.rawMin), EndOfDay(in.rawMax))

\* this step is an engine tick of instance i
EngineTick(i) == last'.op = "tick" /\ last'.inst = i /\ hist'[i].in.kind = "ok"

\* ... that repeats the data and the preset configuration of the previous tick
SameDataAndConfig(i) ==
    /\ hist[i].in.kind = "ok"
    /\ hist'[i].in.rawMin = hist[i].in.rawMin
    /\ hist'[i].in.rawMax = hist[i].in.rawMax
    /\ hist'[i].in.preset = hist[i].in.preset

\* the reset timers that clear each transient flag
ResetTimers(flag) ==
    CASE flag = "isUserInitiatedChange" -> {"U", "UP", "RU"}
      [] flag = "presetJustChanged"     -> {"UP"}
      [] flag = "isRestoringBookmark"   -> {"RU"}
      [] flag = "clearAllPending"       -> {"C"}

TransientFlags == {"isUserInitiatedChange", "presetJustChanged",
                   "isRestoringBookmark", "clearAllPending"}

\* C1 - echo suppression: once the instance has written a range to the filter
\* bus, a tick that presents exactly the written predicate, with the data, the
\* configuration and the clock day unchanged, no operation but expired reset
\* timers in between, changes neither the selection, hasManualSelection nor
\* the preset bookkeeping, and makes no filter-bus write.
C1_EchoSuppression ==
    [][ ( /\ EngineTick(1)
          /\ SameDataAndConfig(1)
          /\ bus # <<>>
          /\ hist'[1].in.filters = bus
          /\ last.fresh /\ last.writer = 1
          /\ NoTimerPending(vis[1]) )
        => ( /\ Selection(vis'[1]) = Selection(vis[1])
             /\ vis'[1].hasManualSelection = vis[1].hasManualSelection
             /\ vis'[1].activePreset = vis[1].activePreset
             /\ vis'[1].lastPresetSetting = vis[1].lastPresetSetting
             /\ last'.w = <<>> ) ]_vars

\* C2 - manual-selection stickiness: a tick that finds the selection still at
\* the range R of the user's latest onDateChange, with the data and the preset
\* configuration of the previous tick, no present-then-absent edge of the
\* external predicate, and an external predicate that is absent or decodes to
\* R, leaves the selection exactly R.
C2_ManualSelectionSticky ==
    [][ ( /\ EngineTick(1)
          /\ SameDataAndConfig(1)
          /\ hist[1].userSel # Null
          /\ Selection(vis[1]) = hist[1].userSel
          /\ ~ ( /\ GetDateRangeFromFilters(hist[1].in.filters) # Null
                 /\ GetDateRangeFromFilters(hist'[1].in.filters) = Null )
          /\ GetDateRangeFromFilters(hist'[1].in.filters) \in {Null, hist[1].userSel} )
        => Selection(vis'[1]) = hist[1].userSel ]_vars

\* the range of the restored preset resolved today against the bounds held by s
LivePresetRange(s) ==
    CalculatePresetRange(s.dataMinDate, s.dataMaxDate, hist[1].blobPreset, now)

\* C3 - snapshot date-freshness: restoring a snapshot that carries a time-based
\* preset P sets the selection to the range of P resolved on the day of the
\* restore against the bounds the instance holds; and a tick on that day, with
\* P configured, that finds the selection at that range leaves it at that range.
C3_SnapshotFreshness ==
    [][ /\ ( /\ last'.op = "restore" /\ last'.inst = 1
             /\ IsTimeBased(hist'[1].blobPreset) )
           => Selection(vis'[1]) =
                  CalculatePresetRange(vis'[1].dataMinDate, vis'[1].dataMaxDate,
                                       hist'[1].blobPreset, now)
        /\ ( /\ EngineTick(1)
             /\ IsTimeBased(hist[1].blobPreset)
             /\ hist[1].blobDay = now
             /\ hist'[1].in.preset = hist[1].blobPreset
             /\ Selection(vis[1]) = LivePresetRange(vis[1]) )
           => Selection(vis'[1]) = LivePresetRange(vis'[1]) ]_vars

\* the ranges that answer a clear-all on a tick with input in: the configured
\* preset resolved now against the bounds of the column, or these bounds when
\* no preset is configured; the bounds taken as delivered or as whole days
ClearAllTargets(in) ==
    { IF in.preset = "none" THEN b
      ELSE CalculatePresetRange(From(b), To(b), in.preset, now) :
        b \in {MkRange(in.rawMin, in.rawMax), TickBounds(in)} }

\* C4 - clear-all recovery: when no user operation has happened, every reset
\* timer has expired, the previous tick presented a decodable external
\* predicate and this tick, with the same data and preset configuration,
\* presents none, then after this tick hasManualSelection is false, the
\* selection is the configured preset resolved now against the current bounds
\* (the full data bounds when no preset is configured), and that range is the
\* one written to the filter bus.
C4_ClearAllRecovery ==
    [][ ( /\ EngineTick(1)
          /\ hist[1].in.kind = "ok"
          /\ hist'[1].in.preset = hist[1].in.preset
          /\ vis[1].lastPresetSetting = hist[1].in.preset
          /\ NoTimerPending(vis[1])
          /\ \A f \in TransientFlags : ~ vis[1][f]
          /\ GetDateRangeFromFilters(hist[1].in.filters) # Null
          /\ GetDateRangeFromFilters(hist'[1].in.filters) = Null )
        => ( /\ Selection(vis'[1]) \in ClearAllTargets(hist'[1].in)
             /\ ~ vis'[1].hasManualSelection
             /\ last'.w # <<>>
             /\ last'.w[Len(last'.w)] = Selection(vis'[1]) ) ]_vars

\* C5 - loop freedom under an echoing host: in the closed loop, where every
\* filter-bus write of the instance is answered by a tick that presents the
\* written predicate with data and configuration unchanged, the ticks come to
\* an end without a write.  The engine is deterministic, so this requires
\* that no echo tick that finds every reset timer expired writes to the
\* filter bus and leaves the fields of the instance and the bus as it found
\* them: from such a tick on, every answer of the host repeats it.
C5_LoopFreedom ==
    [][ ( /\ EngineTick(1)
          /\ hist'[1].echo # hist[1].echo
          /\ NoTimerPending(vis[1])
          /\ last'.w # <<>> )
        => ~ (vis'[1] = vis[1] /\ bus' = bus) ]_vars

\* C6 - two synced instances do not overwrite each other: once the user has
\* selected R on instance 1 and does nothing else, whatever the interleaving
\* of the ticks of the two instances, the filter bus keeps the predicate of R.
C6_SyncedKeepUserRange ==
    hist[1].userSel # Null
    => bus = <<Encode(From(hist[1].userSel), To(hist[1].userSel))>>

\* C7 - a recreated instance honors the filter on the bus: the first tick of a
\* freshly constructed instance that presents a decodable external predicate
\* ends with the selection equal to the decoded range, and writes no other
\* range to the filter bus.
C7_FirstTickHonorsBus ==
    [][ ( /\ EngineTick(1)
          /\ vis[1] = NewVisual
          /\ GetDateRangeFromFilters(hist'[1].in.filters) # Null )
        => ( /\ Selection(vis'[1]) = GetDateRangeFromFilters(hist'[1].in.filters)
             /\ \A k \in 1 .. Len(last'.w) :
                    last'.w[k] = GetDateRangeFromFilters(hist'[1].in.filters) ) ]_vars

\* C8 - a user onChange(R), from the slider, the calendar or the dialog, sets
\* the selection to R and hasManualSelection to true and sends the predicate
\* of exactly R to the filter bus, in every state.
C8_OnChangeWrites ==
    [][ ( last'.inst = 1 /\ last'.op \in {"onChange", "dialog"} )
        => ( /\ Selection(vis'[1]) = hist'[1].userSel
             /\ vis'[1].hasManualSelection
             /\ last'.w # <<>>
             /\ \A k \in 1 .. Len(last'.w) : last'.w[k] = hist'[1].userSel
             /\ bus' = <<Encode(From(hist'[1].userSel), To(hist'[1].userSel))>> ) ]_vars

\* C9 - after a tick, restoreBookmarkState or clearSelection, every transient
\* flag that is set has a reset timer pending that will clear it.
C9_FlagsHaveResetTimer ==
    [][ ( last'.inst = 1 /\ last'.op \in {"tick", "restore", "clear"} )
        => \A f \in TransientFlags :
               vis'[1][f] => \E k \in ResetTimers(f) : vis'[1].timers[k] > 0 ]_vars

\* C10 - a single tick makes at most one filter-bus write.
C10_OneWritePerTick ==
    [][ EngineTick(1) => Len(last'.w) <= 1 ]_vars

\* from and to of r are ordered and lie inside the bounds b
RangeWithin(r, b) ==
    /\ ~Before(From(r), From(b))
    /\ ~Before(To(r), From(r))
    /\ ~Before(To(b), To(r))

\* C11 - preset clamping: for every preset other than none, every clock day
\* and every data bounds min <= max held by the instance, the range returned
\* by calculatePresetRange satisfies bounds.min <= from <= to <= bounds.max,
\* also when the window of the preset lies wholly before bounds.min or wholly
\* after bounds.max.
C11_PresetClamped ==
    ( /\ pure.fn = "preset" /\ pure.done
      /\ From(pure.in.range) # Null /\ To(pure.in.range) # Null )
    => RangeWithin(pure.out.range, pure.in.range)

\* C12 - codec round-trip: decoding the filter that applyDateFilter builds for
\* a valid range R returns exactly R.
C12_CodecRoundTrip ==
    (pure.fn = "codec" /\ pure.done) => pure.out = pure.in.range

\* a round trip whose lower end falls on the previous day in UTC
C12_Witness ==
    /\ pure.fn = "codec" /\ pure.done
    /\ Ms(From(pure.in.range)) < TzOffsetMs
    /\ Day(To(pure.in.range)) > Day(From(pure.in.range))
    /\ pure.out = pure.in.range

\* the number of days in the name of a "last N days" preset
LastDays(preset) ==
    CASE preset = "last3days"  -> 3
      [] preset = "last7Days"  -> 7
      [] preset = "last30Days" -> 30

\* C18 - the presets last3days, last7Days and last30Days, before clamping, end
\* on the current day and cover exactly N whole days: from = today - (N - 1).
C18_LastNDaysWindow ==
    ( /\ pure.fn = "preset" /\ pure.done
      /\ pure.in.preset \in {"last3days", "last7Days", "last30Days"} )
    => pure.out.window = <<pure.in.now - (LastDays(pure.in.preset) - 1), pure.in.now>>

\* C13 - in every reachable state the captured snapshot holds the active
\* preset identifier, isClearSelection = false, and no absolute date: its
\* selected-date and data-bound fields are empty.
C13_SnapshotHasNoDates ==
    LET state == GetBookmarkState(vis[1])
    IN  /\ state.lastPreset = vis[1].activePreset
        /\ state.isClearSelection = FALSE
        /\ state.selectedMinDate = Null /\ state.selectedMaxDate = Null
        /\ state.dataMinDate = Null /\ state.dataMaxDate = Null

\* a snapshot taken while the instance holds a preset, bounds and a manual
\* selection
C13_Witness ==
    /\ vis[1].activePreset \in AllPresets
    /\ vis[1].dataMinDate # Null /\ vis[1].dataMaxDate # Null
    /\ HasSelection(vis[1]) /\ vis[1].hasManualSelection
    /\ GetBookmarkState(vis[1]).lastPreset = vis[1].activePreset
    /\ GetBookmarkState(vis[1]).selectedMinDate = Null

\* this step is restoreBookmarkState(state) on instance 1
RestoredFrom(state) ==
    /\ last'.op = "restore" /\ last'.inst = 1
    /\ hist'[1].blobPreset = state.lastPreset
    /\ vis'[1] = RestoreBookmarkState(vis[1], state, now).s
    /\ last'.w = RestoreBookmarkState(vis[1], state, now).w

\* the snapshot carries a preset identifier other than none
HasPreset(state) == state.lastPreset \notin {NoPreset, "none"}

HasDates(state) == state.selectedMinDate # Null /\ state.selectedMaxDate # Null

\* C14 - every snapshot restore clears manual authority: after
\* restoreBookmarkState, whatever the blob, hasManualSelection is false.
C14_RestoreClearsManual ==
    [][ ( last'.op = "restore" /\ last'.inst = 1 )
        => ~ vis'[1].hasManualSelection ]_vars

\* C15 - restoring a snapshot without a usable preset that carries absolute
\* dates sets the selection to exactly those dates, whatever preset is active
\* in the instance or configured.
C15_RestoreStoredDates ==
    [][ \A state \in Blobs :
          ( /\ RestoredFrom(state)
            /\ ~ state.isClearSelection
            /\ ~ HasPreset(state)
            /\ HasDates(state) )
          => Selection(vis'[1]) = MkRange(state.selectedMinDate, state.selectedMaxDate)
      ]_vars

\* the preset a clear-all restore resolves: the one of the blob, otherwise the
\* one configured in the format pane
ClearPreset(s, state) == IF HasPreset(state) THEN state.lastPreset ELSE s.settingsPreset

\* C16 - restoring a blob with isClearSelection = true acts as a clear-all: the
\* selection becomes the range of the blob's preset, or of the configured
\* preset when the blob has none, resolved now against the bounds held, or the
\* full data bounds when no preset applies; the dates of the blob are ignored
\* and hasManualSelection becomes false.
C16_RestoreClearSelection ==
    [][ \A state \in Blobs :
          ( RestoredFrom(state) /\ state.isClearSelection )
          => /\ Selection(vis'[1]) =
                    IF ClearPreset(vis[1], state) # "none"
                    THEN CalculatePresetRange(vis[1].dataMinDate, vis[1].dataMaxDate,
                                              ClearPreset(vis[1], state), now)
                    ELSE MkRange(vis[1].dataMinDate, vis[1].dataMaxDate)
             /\ ~ vis'[1].hasManualSelection
      ]_vars

\* C17 - the toggle "Recalculate preset on bookmark restore" governs the
\* data-bound presets: restoring a snapshot with preset minDate or maxDate and
\* stored dates yields the stored dates when the toggle is off and the
\* recalculated preset when it is on; a time-based preset is recalculated
\* whatever the toggle.
C17_RecalculateToggle ==
    [][ \A state \in Blobs :
          ( RestoredFrom(state) /\ ~ state.isClearSelection )
          => /\ ( state.lastPreset \in DataBoundPresets /\ HasDates(state) )
                => Selection(vis'[1]) =
                       IF hist'[1].recalc
                       THEN CalculatePresetRange(vis'[1].dataMinDate, vis'[1].dataMaxDate,
                                                 state.lastPreset, now)
                       ELSE MkRange(state.selectedMinDate, state.selectedMaxDate)
             /\ IsTimeBased(state.lastPreset)
                => Selection(vis'[1]) =
                       CalculatePresetRange(vis'[1].dataMinDate, vis'[1].dataMaxDate,
                                            state.lastPreset, now)
      ]_vars

\* the fields a tick that renders a message must leave alone
FrameFields == {"selectedMinDate", "selectedMaxDate", "hasManualSelection",
                "activePreset", "lastPresetSetting", "dataMinDate", "dataMaxDate",
                "shouldApplyFilter", "timers"} \cup TransientFlags

\* C19 - a tick without a data view, without a date field, bound to a
\* date-hierarchy level, or whose column holds no parsable date does not run
\* the engine: selection, hasManualSelection, activePreset, lastPresetSetting,
\* the stored bounds and all mode flags are unchanged and no filter-bus write
\* is made.
C19_IdleTickFrame ==
    [][ ( last'.op = "tick" /\ last'.inst = 1 /\ hist'[1].in.kind \in IdleKinds )
        => ( /\ \A f \in FrameFields : vis'[1][f] = vis[1][f]
             /\ last'.w = <<>>
             /\ bus' = bus ) ]_vars

\* a tick without parsable dates on an instance that holds a selection, a
\* manual pick and a pending reset timer
C19_Witness ==
    /\ last.op = "tick" /\ last.inst = 1
    /\ hist[1].in.kind = "noValidDates"
    /\ HasSelection(vis[1]) /\ vis[1].hasManualSelection
    /\ vis[1].isUserInitiatedChange /\ ~NoTimerPending(vis[1])
    /\ bus # <<>>

\* C20 - a tick whose external predicate cannot be decoded (another table or
\* column, no conditions, the lower or the upper bound missing, a value that
\* is no date) yields exactly the next state and the writes of the same tick
\* without external predicate.
C20_UndecodableAsAbsent ==
    [][ ( /\ EngineTick(1)
          /\ Len(hist'[1].in.filters) = 1
          /\ hist'[1].in.filters[1] \in UndecodableFilters )
        => ( /\ Update(vis[1], [hist'[1].in EXCEPT !.filters = <<>>]
                                 @@ [now |-> now, isService |-> isService])
                = [s |-> vis'[1], w |-> last'.w]
             /\ bus' = BusAfter(last'.w) ) ]_vars

\* a tick with a filter of another column on an instance holding a selection
\* with every reset timer expired: without the filter the clear-all branch runs
C20_Witness ==
    /\ last.op = "tick" /\ last.inst = 1 /\ hist[1].in.kind = "ok"
    /\ hist[1].ticks = MaxTicks
    /\ hist[1].in.filters = <<OtherColumnFilter>>
    /\ vis[1].clearAllPending
    /\ last.w # <<>>

\* C21 - every filter-bus call of the instance, whatever the operation that
\* makes it, is an applyJsonFilter with the merge action whose predicate
\* targets the bound table and column; after it the column still carries a
\* predicate: the filter is never removed.
C21_MergeOnly ==
    [][ ( last'.inst = 1 /\ last'.w # <<>> )
        => ( /\ \A k \in 1 .. Len(last'.w) :
                    LET call == ApplyJsonFilter(last'.w[k])
                    IN  /\ call.action = "merge"
                        /\ call.filter.target = BoundColumn
             /\ bus' # <<>>
             /\ bus'[1].target = BoundColumn ) ]_vars

\* a bookmark restore that writes to the filter bus
C21_Witness ==
    /\ last.inst = 1 /\ last.op = "restore"
    /\ last.w # <<>> /\ bus # <<>>

\* the range decoded from the external predicate of a tick input
External(in) == GetDateRangeFromFilters(in.filters)

\* C22 - adoption of a genuine external predicate: a tick that presents an
\* external predicate whose range differs from the selection, while no
\* transient flag is set and no reset timer is pending, ends with the
\* selection equal to the decoded range and hasManualSelection true, and
\* makes no filter-bus write; whatever preset is configured.
C22_ExternalAdoption ==
    [][ ( /\ EngineTick(1)
          /\ External(hist'[1].in) # Null
          /\ HasSelection(vis[1])
          /\ Selection(vis[1]) # External(hist'[1].in)
          /\ \A f \in TransientFlags : ~ vis[1][f]
          /\ NoTimerPending(vis[1]) )
        => ( /\ Selection(vis'[1]) = External(hist'[1].in)
             /\ vis'[1].hasManualSelection
             /\ last'.w = <<>> ) ]_vars

\* this step ran the clear-all branch of update(): it is the only place that
\* schedules the timer resetting clearAllPending
ClearAllRan(i) == vis'[i].timers["C"] > vis[i].timers["C"]

\* C23 - clear-all is edge-triggered: the clear-all branch runs only on a
\* tick that presents no external predicate while the tick before presented
\* one; never on the first tick, nor after a tick without external predicate.
C23_ClearAllEdge ==
    [][ ( EngineTick(1) /\ ClearAllRan(1) )
        => ( /\ hist[1].ticks > 0
             /\ External(hist[1].in) # Null
             /\ External(hist'[1].in) = Null ) ]_vars

\* C24 - the first tick of a fresh instance without external predicate: with
\* a preset other than none configured the selection becomes the live range
\* of the preset and that range is written back; with preset none the
\* selection becomes the data bounds and the tick makes no filter-bus write.
C24_FirstTickNoExternal ==
    [][ ( /\ EngineTick(1)
          /\ vis[1] = NewVisual
          /\ External(hist'[1].in) = Null )
        => ( /\ Selection(vis'[1]) \in ClearAllTargets(hist'[1].in)
             /\ IF hist'[1].in.preset # "none"
                THEN /\ last'.w # <<>>
                     /\ \A k \in 1 .. Len(last'.w) : last'.w[k] = Selection(vis'[1])
                ELSE last'.w = <<>> ) ]_vars

\* the range r clamped into the bounds b
ClampInto(r, b) == MkRange(MaxDate(From(r), From(b)), MinDate(To(r), To(b)))

\* C25 - a bounds change alone never writes: a tick after the first that
\* differs from the previous tick only in the dates of the column (same
\* configured preset, already the one in force, same external predicate),
\* arriving while no transient flag is set and no reset timer is pending,
\* clamps the existing selection into the new bounds and makes no
\* filter-bus write.
C25_BoundsChangeNoWrite ==
    [][ ( /\ EngineTick(1)
          /\ hist[1].in.kind = "ok"
          /\ hist'[1].in.preset = hist[1].in.preset
          /\ vis[1].lastPresetSetting = hist[1].in.preset
          /\ hist'[1].in.filters = hist[1].in.filters
          /\ TickBounds(hist'[1].in) # TickBounds(hist[1].in)
          /\ HasSelection(vis[1])
          /\ \A f \in TransientFlags : ~ vis[1][f]
          /\ NoTimerPending(vis[1]) )
        => ( /\ last'.w = <<>>
             /\ Selection(vis'[1]) =
                    ClampInto(Selection(vis[1]), TickBounds(hist'[1].in)) ) ]_vars

\* C26 - preset configuration change: a tick whose configured preset differs
\* from lastPresetSetting, with no restore in progress, ends with
\* hasManualSelection false, lastPresetSetting equal to the configured
\* preset and the selection equal to the live range of that preset (the data
\* bounds for none), and that range is the one written to the filter bus.
C26_PresetChange ==
    [][ ( /\ EngineTick(1)
          /\ vis[1].lastPresetSetting # hist'[1].in.preset
          /\ ~ vis[1].isRestoringBookmark )
        => ( /\ ~ vis'[1].hasManualSelection
             /\ vis'[1].lastPresetSetting = hist'[1].in.preset
             /\ Selection(vis'[1]) \in ClearAllTargets(hist'[1].in)
             /\ last'.w # <<>>
             /\ last'.w[Len(last'.w)] = Selection(vis'[1]) ) ]_vars

\* C27 - a local change in flight blocks external adoption: the tick that
\* directly follows a user onChange(R) (slider, calendar, typed date or
\* dialog; no reset timer has fired in between), with the data and the preset
\* configuration of the previous tick, and that presents an external
\* predicate different from R, leaves the selection at R.
C27_LocalChangeBlocksAdoption ==
    [][ ( /\ EngineTick(1)
          /\ SameDataAndConfig(1)
          /\ last.inst = 1 /\ last.op \in {"onChange", "dialog"}
          /\ Selection(vis[1]) = hist[1].userSel
          /\ External(hist'[1].in) # Null
          /\ External(hist'[1].in) # hist[1].userSel )
        => Selection(vis'[1]) = hist[1].userSel ]_vars

\* the range r is among the filter-bus calls w
Written(w, r) == \E k \in 1 .. Len(w) : w[k] = r

\* C28 - every snapshot restore is written back: a restoreBookmarkState that
\* changes the selection while the data source is known writes the restored
\* selection to the filter bus at once; when it made no write, the tick that
\* directly follows it (no reset timer has fired) writes the restored
\* selection, also when the restore came before the first tick.
C28_RestoreWrittenBack ==
    [][ /\ ( /\ last'.op = "restore" /\ last'.inst = 1
             /\ vis[1].currentDataSource
             /\ HasSelection(vis'[1])
             /\ Selection(vis'[1]) # Selection(vis[1]) )
           => Written(last'.w, Selection(vis'[1]))
        /\ ( /\ EngineTick(1)
             /\ last.op = "restore" /\ last.inst = 1 /\ last.w = <<>>
             /\ vis[1].isRestoringBookmark
             /\ HasSelection(vis[1]) )
           => Written(last'.w, Selection(vis[1])) ]_vars

\* the ranges a tick of instance i can recalculate from a preset: the
\* configured preset or the preset in force, resolved now against the bounds
\* held before or after the tick
RecalculatedRanges(i) ==
    { CalculatePresetRange(s.dataMinDate, s.dataMaxDate, p, now) :
        s \in {vis[i], vis'[i]},
        p \in {hist'[i].in.preset, vis[i].lastPresetSetting,
               vis'[i].lastPresetSetting} \ {NoPreset} }

\* C29 - while isRestoringBookmark is set, no tick sets the selection to the
\* dates decoded from the external predicate: a tick that ends with the
\* selection at the decoded range either found it there or recalculated it
\* from a preset.
C29_NoAdoptionWhileRestoring ==
    [][ ( /\ EngineTick(1)
          /\ vis[1].isRestoringBookmark
          /\ External(hist'[1].in) # Null
          /\ Selection(vis'[1]) = External(hist'[1].in) )
        => ( \/ Selection(vis[1]) = External(hist'[1].in)
             \/ External(hist'[1].in) \in RecalculatedRanges(1) ) ]_vars

\* a tick that presented an external predicate while a bookmark was being
\* restored, and ended with another selection and the restore still going on
C29_Witness ==
    /\ last.op = "tick" /\ last.inst = 1 /\ hist[1].in.kind = "ok"
    /\ vis[1].isRestoringBookmark
    /\ External(hist[1].in) # Null
    /\ HasSelection(vis[1])
    /\ Selection(vis[1]) # External(hist[1].in)

\* the range r has from <= to
Ordered(r) == ~Before(To(r), From(r))

\* C30 - in every reachable state that holds a selection, from <= to, and
\* every range written to the filter bus has from <= to: after a clamp into
\* new bounds, after an onChange with a typed from-date, after the adoption of
\* an external predicate and after a restore.
C30_SelectionOrdered ==
    /\ HasSelection(vis[1]) => Ordered(Selection(vis[1]))
    /\ \A k \in 1 .. Len(last.w) : Ordered(last.w[k])

\* the range r runs from 00:00:00.000 of a day to 23:59:59.999 of a day
WholeDays(r) == Ms(From(r)) = 0 /\ Ms(To(r)) = DayMs - 1

\* C31 - in every reachable state that holds a selection, the selection is a
\* whole-day range: from at 00:00:00.000 and to at 23:59:59.999 of their days.
C31_SelectionWholeDays ==
    HasSelection(vis[1]) => WholeDays(Selection(vis[1]))

\* the preset range resolved against the bounds of the column delivered by a tick
ResolveOnTick(in, clock) ==
    CalculatePresetRange(From(TickBounds(in)), To(TickBounds(in)), in.preset, clock)

\* C32 - the preset range an engine tick resolves (presetRangeForClear) is the
\* preset resolved against the clock and the data bounds of that very tick; for
\* the preset maxDate it is the single whole day of that tick's bounds.max,
\* on the first tick and on a tick whose bounds differ from the stored ones.
C32_PresetFromTickBounds ==
    [][ EngineTick(1) =>
          LET in == hist'[1].in
          IN  /\ vis'[1].presetRangeForClear = ResolveOnTick(in, now)
              /\ in.preset = "maxDate" =>
                    vis'[1].presetRangeForClear =
                        MkRange(StartOfDay(in.rawMax), EndOfDay(in.rawMax)) ]_vars

\* the latest tick of instance i delivered the date values of the tick before it
SameDates(i) ==
    /\ hist[i].in.kind = "ok"
    /\ hist'[i].in.rawMin = hist[i].in.rawMin
    /\ hist'[i].in.rawMax = hist[i].in.rawMax

\* C33 - a tick that delivers exactly the date values of the previous tick does
\* not detect a bounds change (line 185), and the Desktop force step (199-211)
\* leaves the stored data bounds and the selection as they were, in both
\* environments and for every time of day of the minimum and maximum values.
C33_SameDatesNoBoundsChange ==
    [][ EngineTick(1) /\ SameDates(1) =>
          LET in == hist'[1].in @@ [now |-> now, isService |-> isService]
              c  == DesktopForceStep(Ctx(vis[1]), in, FALSE)
          IN  /\ ~BoundsChanged(vis[1], in)
              /\ c.s.dataMinDate = vis[1].dataMinDate
              /\ c.s.dataMaxDate = vis[1].dataMaxDate
              /\ Selection(c.s) = Selection(vis[1]) ]_vars

\* ------------------------------------------ restoreBookmarkState on any blob
\* restoreBookmarkState(state) takes state: any; the fields it reads may each
\* be present or absent
AnyBlobs ==
    { [lastPreset |-> p, isClearSelection |-> b,
       selectedMinDate |-> sm, selectedMaxDate |-> sx,
       dataMinDate |-> dm, dataMaxDate |-> dx] :
         p \in {NoPreset, "maxDate"},
         b \in BOOLEAN,
         sm \in {Null, From(ForeignRange)},
         sx \in {Null, To(ForeignRange)},
         dm \in {Null, MkDate(FirstClockDay - 2, 0)},
         dx \in {Null, MkDate(FirstClockDay + 2, DayMs - 1)} }

\* restoreBookmarkState(undefined) or restoreBookmarkState(null): state?.x
\* reads as undefined (lines 1908, 1934, 1950); state.selectedMinDate at 1997
\* throws a TypeError, which ends the method before the setTimeout of 2044
RestoreAbsentBlob(s, clock) ==
    LET c0 == Ctx([s EXCEPT !.isRestoringBookmark = TRUE])
        detectedPreset ==
            IF s.activePreset # NoPreset THEN s.activePreset
            ELSE IF s.settingsPreset # "none" THEN s.settingsPreset
            ELSE NoPreset
        presetRange == CalculatePresetRange(s.dataMinDate, s.dataMaxDate,
                                            detectedPreset, clock)
    IN  IF IsTimeBased(detectedPreset) /\ presetRange # Null
        THEN LET c1 == [c0 EXCEPT !.s.selectedMinDate = From(presetRange),
                                  !.s.selectedMaxDate = To(presetRange),
                                  !.s.presetRangeForClear = presetRange,
                                  !.s.hasManualSelection = FALSE,
                                  !.s.activePreset = detectedPreset,
                                  !.s.lastPresetSetting = detectedPreset,
                                  !.s.shouldApplyFilter = TRUE,
                                  !.s.isUserInitiatedChange = TRUE]
             IN  [c |-> IF s.currentDataSource
                        THEN ApplyDateFilter(c1, From(presetRange), To(presetRange))
                        ELSE c1,
                  raised |-> FALSE]
        ELSE [c |-> c0, raised |-> TRUE]

\* the host calls restoreBookmarkState(state) with any blob
BlobRestore(i) ==
    /\ userOps < MaxUserOps
    /\ userOps' = userOps + 1
    /\ \E state \in AnyBlobs :
        /\ Commit(i, "restore", RestoreBookmarkState(vis[i], state, now))
        /\ hist' = [hist EXCEPT ![i].userSel = Null,
                                ![i].blobPreset = state.lastPreset,
                                ![i].blobDay = now,
                                ![i].recalc = TRUE]

\* the host calls restoreBookmarkState without a blob
AbsentRestore(i) ==
    /\ userOps < MaxUserOps
    /\ userOps' = userOps + 1
    /\ Commit(i, "restoreAbsent", RestoreAbsentBlob(vis[i], now).c)
    /\ hist' = [hist EXCEPT ![i].userSel = Null, ![i].blobPreset = NoPreset,
                            ![i].blobDay = now, ![i].recalc = TRUE]

BlobNext ==
    \/ FirstTick(1)
    \/ BlobRestore(1)
    \/ AbsentRestore(1)
    \/ UserChange(1)
    \/ Clear(1)
    \/ Timer(1)

BlobSpec == Init /\ [][BlobNext]_vars

\* C34 - restoreBookmarkState with any blob or none, onDateChange,
\* clearSelection and the expiry of a timer leave the stored data bounds
\* dataMinDate and dataMaxDate as they were.
C34_OnlyTickChangesBounds ==
    [][ last'.inst = 1 /\ last'.op # "tick" =>
          /\ vis'[1].dataMinDate = vis[1].dataMinDate
          /\ vis'[1].dataMaxDate = vis[1].dataMaxDate ]_vars

\* C35 - whenever an operation of the instance (a tick, onDateChange, a dialog
\* result, restoreBookmarkState, clearSelection) calls the filter bus, the
\* range of its last call is the selection the operation leaves behind.
C35_BusCarriesSelection ==
    [][ last'.inst = 1 /\ last'.w # <<>> =>
          /\ HasSelection(vis'[1])
          /\ last'.w[Len(last'.w)] = Selection(vis'[1]) ]_vars

\* the largest number of timers of a kind that one restoreBookmarkState arms:
\* the 100 ms timer of clearSelectionWithCurrentData and its own 150 / 300 ms one
ArmedByRestore(kind) == IF kind \in {"U", "RU"} THEN 1 ELSE 0

\* this step is the expiry of a timer of the given kind that was armed before
\* the restoreBookmarkState of the previous step: more timers of the kind are
\* pending than that call can have armed, and the oldest expires first
StaleExpiry(kind) ==
    /\ last.inst = 1 /\ last.op = "restore"
    /\ last'.inst = 1 /\ last'.op = "timer"
    /\ vis'[1].timers[kind] < vis[1].timers[kind]
    /\ vis[1].timers[kind] > ArmedByRestore(kind)

\* C36 - a reset timer armed before a restoreBookmarkState does not clear the
\* flags that call has set: isRestoringBookmark, and isUserInitiatedChange when
\* the call has written to the filter bus, keep their values when it expires.
C36_NoStaleTimerClears ==
    [][ \A kind \in TimerKinds :
          StaleExpiry(kind) =>
            /\ vis'[1].isRestoringBookmark = vis[1].isRestoringBookmark
            /\ last.w # <<>> =>
                  vis'[1].isUserInitiatedChange = vis[1].isUserInitiatedChange ]_vars

\* two date fields that are both absent or both present
Paired(a, b) == (a = Null) <=> (b = Null)

\* C37 - in every reachable state selectedMinDate and selectedMaxDate are both
\* absent or both present, and so are dataMinDate and dataMaxDate, restores
\* from blobs carrying only one of their date fields included.
C37_RangesNeverPartial ==
    /\ Paired(vis[1].selectedMinDate, vis[1].selectedMaxDate)
    /\ Paired(vis[1].dataMinDate, vis[1].dataMaxDate)

\* ------------------------------------------- a bookmark captured and replayed
\* the host calls getBookmarkState() and hands the blob straight back to
\* restoreBookmarkState
CaptureRestore(i) ==
    /\ userOps < MaxUserOps
    /\ userOps' = userOps + 1
    /\ Commit(i, "roundTrip",
              RestoreBookmarkState(vis[i], GetBookmarkState(vis[i]), now))
    /\ hist' = [hist EXCEPT ![i].userSel = Null,
                            ![i].blobPreset = vis[i].activePreset,
                            ![i].blobDay = now,
                            ![i].recalc = TRUE]

\* a range set by another slicer that is not the range of a configured preset
\* on the first clock day
TodayRange == MkRange(MkDate(FirstClockDay, 0), MkDate(FirstClockDay, DayMs - 1))

\* update(options) whose jsonFilters may also hold that range
RoundTripTick(i) ==
    \E rawMin \in DataMins, rawMax \in DataMaxs, preset \in SettingPresets,
       filters \in JsonFilters(bus) \cup {<<Encode(From(TodayRange), To(TodayRange))>>} :
        TickWith(i, [kind |-> "ok", rawMin |-> rawMin, rawMax |-> rawMax,
                     filters |-> filters, preset |-> preset, popup |-> popupMode])

RoundTripNext ==
    \/ RoundTripTick(1)
    \/ CaptureRestore(1)
    \/ Timer(1)

RoundTripSpec == Init /\ [][RoundTripNext]_vars

\* C38 - in a state without a manual selection, getBookmarkState() followed at
\* once by restoreBookmarkState of its blob (same clock day, data bounds and
\* configuration) leaves the selection, activePreset and lastPresetSetting
\* as they were.
C38_CaptureRestoreNoOp ==
    [][ last'.inst = 1 /\ last'.op = "roundTrip" /\ ~vis[1].hasManualSelection =>
          /\ Selection(vis'[1]) = Selection(vis[1])
          /\ vis'[1].activePreset = vis[1].activePreset
          /\ vis'[1].lastPresetSetting = vis[1].lastPresetSetting ]_vars

\* C39 - restoreBookmarkState called without a blob (null or undefined), in any
\* reachable state, returns without raising an error and arms the timer that
\* resets isRestoringBookmark.
C39_AbsentBlobTolerated ==
    [][ last'.inst = 1 /\ last'.op = "restoreAbsent" =>
          /\ ~RestoreAbsentBlob(vis[1], now).raised
          /\ vis'[1].timers["RU"] > vis[1].timers["RU"] ]_vars


====
